---- MODULE Spec2Model ----
(***************************************************************************)
(* IDBHelper (src/src/index.ts): a promise facade over one IndexedDB       *)
(* object store.  The file holds two variants of the class:                *)
(*   "percall" (lines 1-89):   every operation awaits its own openDB();    *)
(*   "cached"  (lines 126-400): the constructor calls init(), operations   *)
(*                              use this.db through tx().                  *)
(* The IndexedDB engine is modelled by what the calls of the source do to  *)
(* it: one object store with keyPath "id" and a key generator, FIFO        *)
(* transactions that work on a private copy and commit on completion.      *)
(***************************************************************************)
EXTENDS Integers, Sequences, FiniteSets, TLC

MaxId == 2          \* callers supply ids 1..MaxId; the key generator stops there
MaxBulk == 2        \* longest list handed to a bulk operation
MaxTxs == 2         \* a call is issued while fewer transactions than this are live
MaxHandles == 2     \* an open request succeeds while fewer connections than this are open

Version == 1        \* default of the constructor's version parameter
StoreName == "dataStore"
IndexName == "name"
Names == {"A", "B"}
Callers == {"c1", "c2"}
Solo == {"c1"}      \* the caller of the behaviours with one call at a time

Ids == 1..MaxId

(***************************************************************************)
(* Records: JavaScript objects as functions from a set of field names.     *)
(* MkRec(0, "") is the object {} ; MkRec(1, "A") is {id: 1, name: "A"}.    *)
(***************************************************************************)
MkRec(i, n) ==
    [f \in (IF i # 0 THEN {"id"} ELSE {}) \cup (IF n # "" THEN {"name"} ELSE {})
        |-> IF f = "id" THEN i ELSE n]

EmptyRec == MkRec(0, "")

\* what callers pass as data: a name, with or without an id
Records == {MkRec(i, n) : i \in 0..MaxId, n \in Names}

\* what callers pass as updates: any part of a record
Patches == {MkRec(i, n) : i \in 0..MaxId, n \in Names \cup {""}}

HasId(r) == "id" \in DOMAIN r

(***************************************************************************)
(* The engine's object store: a set of records, each with its key at "id". *)
(***************************************************************************)
KeysOf(S) == {x.id : x \in S}

\* { ...data, id: k }: the key injected at the key path
WithId(r, k) == [f \in DOMAIN r \cup {"id"} |-> IF f = "id" THEN k ELSE r[f]]

\* the key store.put(data) stores under: the record's own id, or the generator's
PutKey(g, r) == IF HasId(r) THEN r.id ELSE g

\* store.put(data): replaces the record with the same key
PutMutantAdd(S, g, r) == S \cup {WithId(r, PutKey(g, r))}
PutMutantKeyOnly(S, g, r) ==
    {x \in S : x.id # PutKey(g, r)} \cup {WithId(EmptyRec, PutKey(g, r))}
PutMutantDrop(S, g, r) == IF PutKey(g, r) \in KeysOf(S) THEN S ELSE S \cup {WithId(r, PutKey(g, r))}
Put(S, g, r) == {x \in S : x.id # PutKey(g, r)} \cup {WithId(r, PutKey(g, r))}

\* the key generator after store.put(data)
NextKeyMutantStuck(g, r) == g
NextKey(g, r) ==
    IF HasId(r) THEN (IF r.id >= g THEN r.id + 1 ELSE g) ELSE g + 1

\* store.delete(id)
DeleteMutantNone(S, id) == S
Delete(S, id) == {x \in S : x.id # id}

\* store.clear()
ClearMutantKeepOne(S) == IF S = {} THEN {} ELSE {CHOOSE x \in S : TRUE}
Clear(S) == {}

\* store.count()
Count(S) == Cardinality(S)

\* store.get(id): the record, or undefined
Found(S, id) == \E x \in S : x.id = id
Get(S, id) == CHOOSE x \in S : x.id = id

\* store.getAll(): every record, in ascending key order
RECURSIVE GetAll(_)
GetAll(S) ==
    IF S = {} THEN <<>>
    ELSE LET m == CHOOSE x \in S : \A y \in S : x.id <= y.id
         IN <<m>> \o GetAll(S \ {m})

\* index.get(value): the record of lowest key whose indexed field is value
IndexHits(S, v) == {x \in S : "name" \in DOMAIN x /\ x.name = v}
IndexGet(S, v) == GetAll(IndexHits(S, v))[1]


(***************************************************************************)
(* State.                                                                  *)
(***************************************************************************)
VARIABLES
    variant,          \* which class of index.ts is constructed
    dbVersion,        \* engine: version of the database, 0 while it does not exist
    objectStoreNames, \* engine: db.objectStoreNames
    indexNames,       \* engine: the indexes declared on the store
    store,            \* engine: the committed records of the store
    keyGen,           \* engine: the committed key generator of the store
    request,          \* cached: the open request of init()
    db,               \* cached: this.db
    closed,           \* cached: close() was called on the connection behind this.db
    handles,          \* engine: the connections to the database that are open
    closeCalled,      \* history: closeDB() was called
    calls,            \* per caller: the public call it made last and its promise
    txs,              \* engine: transactions in creation order, head runs
    hist              \* history: what the write resolved last tells about the store

vars == <<variant, dbVersion, objectStoreNames, indexNames, store, keyGen,
          request, db, closed, handles, closeCalled, calls, txs, hist>>

engineVars == <<dbVersion, objectStoreNames, indexNames>>
connVars == <<request, db, closed, handles, closeCalled>>

\* arguments of a call, results of a promise: one shape for all operations
A0 == [id |-> 0, data |-> EmptyRec, hi |-> 0, items |-> <<>>, ids |-> <<>>,
       value |-> "", index |-> ""]
R0 == [t |-> "none", n |-> 0, rec |-> EmptyRec, list |-> <<>>, b |-> FALSE]

Idle == [op |-> "none", arg |-> A0, pc |-> "idle", st |-> "none", res |-> R0]

Pending(c, op) == calls[c].st = "pending" /\ calls[c].op = op

\* new Promise(...) of a call, resolve(v) and reject(e)
NewCall(op, arg, pc) == [op |-> op, arg |-> arg, pc |-> pc, st |-> "pending", res |-> R0]
Resolved(call, res) == [call EXCEPT !.arg = A0, !.pc = "done", !.st = "resolved", !.res = res]
Rejected(call, err) ==
    [call EXCEPT !.arg = A0, !.pc = "done", !.st = "rejected", !.res = [R0 EXCEPT !.t = err]]

\* requests placed on an object store
Req(type, id, data, value) == [type |-> type, id |-> id, data |-> data, value |-> value]

\* db.transaction(storeName, mode).objectStore(storeName) with its requests
NewTx(c, mode, reqs, bulk) ==
    [owner |-> c, mode |-> mode, reqs |-> reqs, bulk |-> bulk,
     started |-> FALSE, work |-> {}, wkey |-> 0]

\* history values: nothing known; setItem(rec) with an id resolved last (again:
\* and so did a setItem with the same id right before it); removeItem(id)
\* resolved last; the store was empty (new, or clear() resolved) and since
\* then only id-less setItem calls resolved, with these ids (recs: the records
\* that were passed to them, in the same order)
H0 == [k |-> "none", rec |-> EmptyRec, again |-> FALSE, id |-> 0, ids |-> <<>>,
       recs |-> <<>>]
WasSet(r) ==
    [H0 EXCEPT !.k = "set", !.rec = r, !.again = (hist.k = "set" /\ hist.rec.id = r.id)]
WasRemoved(id) == [H0 EXCEPT !.k = "removed", !.id = id]
Autos(ids) == [H0 EXCEPT !.k = "autos", !.ids = ids]

(***************************************************************************)
(* Init: the state after the constructor returned.  The database either    *)
(* does not exist yet, or exists at this version with the store and an     *)
(* index on "name", as whoever created it declared them.                   *)
(***************************************************************************)
Init ==
    /\ variant \in {"percall", "cached"}
    /\ dbVersion \in {0, Version}
    /\ objectStoreNames = IF dbVersion = 0 THEN {} ELSE {StoreName}
    /\ indexNames = IF dbVersion = 0 THEN {} ELSE {IndexName}
    /\ store = {}
    /\ keyGen = 1
    /\ request = IF variant = "cached" THEN "pending" ELSE "none"
    /\ db = "undefined"
    /\ closed = FALSE
    /\ handles = 0
    /\ closeCalled = FALSE
    /\ calls = [c \in Callers |-> Idle]
    /\ txs = <<>>
    /\ hist = Autos(<<>>)


(***************************************************************************)
(* Opening the database.                                                   *)
(***************************************************************************)
\* request.onupgradeneeded of both variants: create the store if it is missing
CreateStoreMutantNever(names) == names
CreateStore(names) ==
    IF StoreName \notin names THEN names \cup {StoreName} ELSE names

\* cached: init(), request.onupgradeneeded
InitUpgradeNeeded ==
    /\ variant = "cached" /\ request = "pending"
    /\ dbVersion < Version
    /\ dbVersion' = Version
    /\ objectStoreNames' = CreateStore(objectStoreNames)
    /\ UNCHANGED <<variant, indexNames, store, keyGen, connVars, calls, txs, hist>>

\* cached: init(), request.onsuccess: this.db = request.result
InitSuccess ==
    /\ variant = "cached" /\ request = "pending"
    /\ dbVersion = Version
    /\ request' = "done"
    /\ db' = "open"
    /\ handles' = handles + 1
    /\ UNCHANGED <<variant, engineVars, store, keyGen, closed, closeCalled, calls, txs, hist>>

(***************************************************************************)
(* Issuing a public call.  A caller awaits its previous call first.        *)
(***************************************************************************)
Free(c) == calls[c].st # "pending" /\ Len(txs) < MaxTxs

\* the key generator once every request queued so far has run
RECURSIVE KeyAfterReqs(_, _)
KeyAfterReqs(g, reqs) ==
    IF reqs = <<>> THEN g
    ELSE KeyAfterReqs(IF Head(reqs).type = "put" THEN NextKey(g, Head(reqs).data) ELSE g,
                      Tail(reqs))

RECURSIVE KeyAfterTxs(_, _)
KeyAfterTxs(g, ts) ==
    IF ts = <<>> THEN g
    ELSE KeyAfterTxs(KeyAfterReqs(IF Head(ts).started THEN Head(ts).wkey ELSE g, Head(ts).reqs),
                     Tail(ts))

\* the model stops handing out keys beyond MaxId
KeysLeft(reqs) ==
    LET opening == {c \in Callers : calls[c].st = "pending" /\ calls[c].pc = "opening"
                                    /\ calls[c].op = "setItem" /\ ~HasId(calls[c].arg.data)}
    IN KeyAfterReqs(KeyAfterTxs(keyGen, txs), reqs) + Cardinality(opening) <= MaxId + 1

\* cached: this.tx(mode) and the requests placed on it; reading this.db while it
\* is undefined throws a TypeError, a closed connection an InvalidStateError.
\* An exception inside the promise executor rejects the promise.
Tx(c, op, arg, mode, reqs, bulk) ==
    IF db = "undefined"
    THEN /\ calls' = [calls EXCEPT ![c] = Rejected(NewCall(op, arg, "done"), "TypeError")]
         /\ txs' = txs
    ELSE IF closed
    THEN /\ calls' = [calls EXCEPT ![c] = Rejected(NewCall(op, arg, "done"), "InvalidStateError")]
         /\ txs' = txs
    ELSE /\ calls' = [calls EXCEPT ![c] = NewCall(op, arg, "request")]
         /\ txs' = Append(txs, NewTx(c, mode, reqs, bulk))

\* percall: const db = await this.openDB(): the call waits for its open request
AwaitOpenDB(c, op, arg) ==
    /\ calls' = [calls EXCEPT ![c] = NewCall(op, arg, "opening")]
    /\ txs' = txs

\* the first statement of a single-request operation, by variant
Begin(c, op, arg, mode, req) ==
    /\ Free(c)
    /\ IF variant = "percall"
       THEN AwaitOpenDB(c, op, arg)
       ELSE Tx(c, op, arg, mode, <<req>>, FALSE)
    /\ UNCHANGED <<variant, engineVars, store, keyGen, connVars, hist>>

SetItem(c, data) ==
    /\ KeysLeft(<<Req("put", 0, data, "")>>)
    /\ Begin(c, "setItem", [A0 EXCEPT !.data = data], "readwrite", Req("put", 0, data, ""))

GetItem(c, id) ==
    Begin(c, "getItem", [A0 EXCEPT !.id = id], "readonly", Req("get", id, EmptyRec, ""))

GetAllItems(c) ==
    Begin(c, "getAllItems", A0, "readonly", Req("getAll", 0, EmptyRec, ""))

RemoveItem(c, id) ==
    Begin(c, "removeItem", [A0 EXCEPT !.id = id], "readwrite", Req("delete", id, EmptyRec, ""))

ClearStore(c) ==
    Begin(c, "clear", A0, "readwrite", Req("clear", 0, EmptyRec, ""))

HasItem(c, id) ==
    /\ variant = "cached"
    /\ Begin(c, "hasItem", [A0 EXCEPT !.id = id], "readonly", Req("get", id, EmptyRec, ""))

CountItems(c) ==
    /\ variant = "cached"
    /\ Begin(c, "count", A0, "readonly", Req("count", 0, EmptyRec, ""))

\* updateItem starts with await this.getItem(id)
UpdateItem(c, id, updates) ==
    /\ variant = "cached"
    /\ Begin(c, "updateItem", [A0 EXCEPT !.id = id, !.data = updates], "readonly",
             Req("get", id, EmptyRec, ""))

GetItemsByRange(c, startId, endId) ==
    /\ variant = "cached"
    /\ Begin(c, "getItemsByRange", [A0 EXCEPT !.id = startId, !.hi = endId], "readonly",
             Req("getAll", 0, EmptyRec, ""))

\* getItemsByFilter(filter); a filter is modelled by the name it accepts
GetItemsByFilter(c, filter) ==
    /\ variant = "cached"
    /\ Begin(c, "getItemsByFilter", [A0 EXCEPT !.value = filter], "readonly",
             Req("getAll", 0, EmptyRec, ""))

\* getByIndex: store.index(indexName) throws NotFoundError when no such index
\* is declared; the transaction this.tx() created stays, without a request
GetByIndex(c, indexName, value) ==
    /\ variant = "cached"
    /\ Free(c)
    /\ LET arg == [A0 EXCEPT !.index = indexName, !.value = value]
       IN IF db # "undefined" /\ ~closed /\ indexName \notin indexNames
          THEN /\ calls' = [calls EXCEPT ![c] = Rejected(NewCall("getByIndex", arg, "done"), "NotFoundError")]
               /\ txs' = Append(txs, NewTx(c, "readonly", <<>>, FALSE))
          ELSE Tx(c, "getByIndex", arg, "readonly", <<Req("indexGet", 0, EmptyRec, value)>>, FALSE)
    /\ UNCHANGED <<variant, engineVars, store, keyGen, connVars, hist>>

\* items.forEach((item) => store.put(item)) / ids.forEach((id) => store.delete(id))
PutReqsMutantFirstOnly(items) ==
    IF items = <<>> THEN <<>> ELSE <<Req("put", 0, Head(items), "")>>
RECURSIVE PutReqs(_)
PutReqs(items) ==
    IF items = <<>> THEN <<>>
    ELSE <<Req("put", 0, Head(items), "")>> \o PutReqs(Tail(items))

RECURSIVE DeleteReqs(_)
DeleteReqs(ids) ==
    IF ids = <<>> THEN <<>>
    ELSE <<Req("delete", Head(ids), EmptyRec, "")>> \o DeleteReqs(Tail(ids))

BulkInsert(c, items) ==
    /\ variant = "cached"
    /\ Free(c)
    /\ KeysLeft(PutReqs(items))
    /\ Tx(c, "bulkInsert", [A0 EXCEPT !.items = items], "readwrite", PutReqs(items), TRUE)
    /\ UNCHANGED <<variant, engineVars, store, keyGen, connVars, hist>>

\* a record whose id is not a valid key (NaN, null, an object): store.put
\* throws a DataError for it
InvalidRec == MkRec(-1, "A")
ValidKey(r) == ~HasId(r) \/ r.id >= 0

\* the items forEach has passed to store.put before the first put that throws
RECURSIVE ValidPrefix(_)
ValidPrefix(items) ==
    IF items = <<>> \/ ~ValidKey(Head(items)) THEN <<>>
    ELSE <<Head(items)>> \o ValidPrefix(Tail(items))

\* bulkInsert when a store.put(item) throws: the exception leaves forEach and
\* the promise executor, which rejects the promise; tx.oncomplete and
\* tx.onerror are never set, and nothing aborts the transaction, which keeps
\* the puts placed so far and belongs to no promise any more
BulkInsertThrows(c, items) ==
    /\ variant = "cached"
    /\ Free(c)
    /\ ValidPrefix(items) # items
    /\ KeysLeft(PutReqs(ValidPrefix(items)))
    /\ LET arg == [A0 EXCEPT !.items = items]
       IN IF db # "undefined" /\ ~closed
          THEN /\ calls' = [calls EXCEPT ![c] = Rejected(NewCall("bulkInsert", arg, "done"), "DataError")]
               /\ txs' = Append(txs, NewTx("none", "readwrite", PutReqs(ValidPrefix(items)), TRUE))
          ELSE Tx(c, "bulkInsert", arg, "readwrite", <<>>, TRUE)
    /\ UNCHANGED <<variant, engineVars, store, keyGen, connVars, hist>>

BulkDelete(c, ids) ==
    /\ variant = "cached"
    /\ Free(c)
    /\ Tx(c, "bulkDelete", [A0 EXCEPT !.ids = ids], "readwrite", DeleteReqs(ids), TRUE)
    /\ UNCHANGED <<variant, engineVars, store, keyGen, connVars, hist>>

\* closeDB(): if (this.db) this.db.close()
CloseDB ==
    /\ variant = "cached"
    /\ ~closed
    /\ closed' = (db # "undefined")
    /\ handles' = IF db # "undefined" THEN handles - 1 ELSE handles
    /\ closeCalled' = TRUE
    /\ UNCHANGED <<variant, engineVars, store, keyGen, request, db, calls, txs, hist>>


(***************************************************************************)
(* percall: the open request of a call's openDB().                         *)
(***************************************************************************)
OpModeMutantReadWrite(op) == "readwrite"
OpMode(op) == IF op \in {"setItem", "removeItem", "clear"} THEN "readwrite" ELSE "readonly"

OpReq(op, arg) ==
    CASE op = "setItem" -> Req("put", 0, arg.data, "")
      [] op = "getItem" -> Req("get", arg.id, EmptyRec, "")
      [] op = "getAllItems" -> Req("getAll", 0, EmptyRec, "")
      [] op = "removeItem" -> Req("delete", arg.id, EmptyRec, "")
      [] op = "clear" -> Req("clear", 0, EmptyRec, "")

\* openDB(), request.onupgradeneeded
OpenUpgradeNeeded(c) ==
    /\ variant = "percall"
    /\ calls[c].st = "pending" /\ calls[c].pc = "opening"
    /\ dbVersion < Version
    /\ dbVersion' = Version
    /\ objectStoreNames' = CreateStore(objectStoreNames)
    /\ UNCHANGED <<variant, indexNames, store, keyGen, connVars, calls, txs, hist>>

\* openDB(), request.onsuccess: resolve(request.result); the operation goes on
\* after its await: db.transaction(...).objectStore(...) and the request
OpenSuccess(c) ==
    /\ variant = "percall"
    /\ calls[c].st = "pending" /\ calls[c].pc = "opening"
    /\ dbVersion = Version
    /\ handles < MaxHandles
    /\ handles' = handles + 1
    /\ IF StoreName \in objectStoreNames
       THEN /\ calls' = [calls EXCEPT ![c].pc = "request"]
            /\ txs' = Append(txs, NewTx(c, OpMode(calls[c].op),
                                        <<OpReq(calls[c].op, calls[c].arg)>>, FALSE))
       ELSE /\ calls' = [calls EXCEPT ![c] = Rejected(@, "NotFoundError")]
            /\ txs' = txs
    /\ UNCHANGED <<variant, engineVars, store, keyGen, request, db, closed, closeCalled, hist>>

\* percall: nothing closes the connection an operation opened; once its
\* transaction is over no reference to it is left, and the runtime may collect
\* the handle, which closes the connection
HandleCollected ==
    /\ variant = "percall"
    /\ handles > Len(txs)
    /\ handles' = handles - 1
    /\ UNCHANGED <<variant, engineVars, store, keyGen, request, db, closed, closeCalled, calls, txs, hist>>

(***************************************************************************)
(* The engine runs the head transaction: its requests in order, each on    *)
(* the transaction's private copy of the store, then the commit.           *)
(***************************************************************************)
HeadTx == txs[1]
HView == IF HeadTx.started THEN HeadTx.work ELSE store
HKey == IF HeadTx.started THEN HeadTx.wkey ELSE keyGen
HReq == Head(HeadTx.reqs)

\* the head transaction's next request is the one call c waits for
Ready(c, op, type) ==
    /\ txs # <<>>
    /\ HeadTx.reqs # <<>>
    /\ ~HeadTx.bulk
    /\ HeadTx.owner = c
    /\ Pending(c, op)
    /\ HReq.type = type

\* the request has run: the transaction goes on with store S and generator g
Advance(S, g) ==
    <<[HeadTx EXCEPT !.reqs = Tail(@), !.started = TRUE, !.work = S, !.wkey = g]>> \o Tail(txs)

R(t) == [R0 EXCEPT !.t = t]
RecOrUndefined(S, id) ==
    IF Found(S, id) THEN [R0 EXCEPT !.t = "rec", !.rec = Get(S, id)] ELSE R("undefined")

\* setItem, request.onsuccess: resolve(request.result)
SetItemResult(k) == [R0 EXCEPT !.t = "key", !.n = k]

SetItemOnSuccess(c) ==
    /\ Ready(c, "setItem", "put")
    /\ LET data == HReq.data
           k == PutKey(HKey, data)
       IN /\ txs' = Advance(Put(HView, HKey, data), NextKey(HKey, data))
          /\ calls' = [calls EXCEPT ![c] = Resolved(@, SetItemResult(k))]
          /\ hist' = IF HasId(data) THEN WasSet(data)
                     ELSE IF hist.k = "autos"
                          THEN [Autos(Append(hist.ids, k)) EXCEPT !.recs = Append(hist.recs, data)]
                          ELSE H0
    /\ UNCHANGED <<variant, engineVars, store, keyGen, connVars>>

\* getItem, request.onsuccess: resolve(request.result)
GetItemOnSuccess(c) ==
    /\ Ready(c, "getItem", "get")
    /\ txs' = Advance(HView, HKey)
    /\ calls' = [calls EXCEPT ![c] = Resolved(@, RecOrUndefined(HView, HReq.id))]
    /\ UNCHANGED <<variant, engineVars, store, keyGen, connVars, hist>>

\* getAllItems, request.onsuccess: resolve(request.result)
GetAllItemsOnSuccess(c) ==
    /\ Ready(c, "getAllItems", "getAll")
    /\ txs' = Advance(HView, HKey)
    /\ calls' = [calls EXCEPT ![c] = Resolved(@, [R0 EXCEPT !.t = "list", !.list = GetAll(HView)])]
    /\ UNCHANGED <<variant, engineVars, store, keyGen, connVars, hist>>

\* removeItem, request.onsuccess: resolve()
RemoveItemOnSuccess(c) ==
    /\ Ready(c, "removeItem", "delete")
    /\ txs' = Advance(Delete(HView, HReq.id), HKey)
    /\ calls' = [calls EXCEPT ![c] = Resolved(@, R("void"))]
    /\ hist' = WasRemoved(HReq.id)
    /\ UNCHANGED <<variant, engineVars, store, keyGen, connVars>>

\* clear, request.onsuccess: resolve()
ClearOnSuccess(c) ==
    /\ Ready(c, "clear", "clear")
    /\ txs' = Advance(Clear(HView), HKey)
    /\ calls' = [calls EXCEPT ![c] = Resolved(@, R("void"))]
    /\ hist' = Autos(<<>>)
    /\ UNCHANGED <<variant, engineVars, store, keyGen, connVars>>

\* hasItem, request.onsuccess: resolve(!!request.result)
HasItemResultMutantNegated(S, id) == [R0 EXCEPT !.t = "bool", !.b = ~Found(S, id)]
HasItemResult(S, id) == [R0 EXCEPT !.t = "bool", !.b = Found(S, id)]

HasItemOnSuccess(c) ==
    /\ Ready(c, "hasItem", "get")
    /\ txs' = Advance(HView, HKey)
    /\ calls' = [calls EXCEPT ![c] = Resolved(@, HasItemResult(HView, HReq.id))]
    /\ UNCHANGED <<variant, engineVars, store, keyGen, connVars, hist>>

\* count, request.onsuccess: resolve(request.result)
CountOnSuccess(c) ==
    /\ Ready(c, "count", "count")
    /\ txs' = Advance(HView, HKey)
    /\ calls' = [calls EXCEPT ![c] = Resolved(@, [R0 EXCEPT !.t = "count", !.n = Count(HView)])]
    /\ UNCHANGED <<variant, engineVars, store, keyGen, connVars, hist>>

\* getByIndex, request.onsuccess: resolve(request.result)
GetByIndexOnSuccess(c) ==
    /\ Ready(c, "getByIndex", "indexGet")
    /\ txs' = Advance(HView, HKey)
    /\ calls' = [calls EXCEPT ![c] = Resolved(@,
                    IF IndexHits(HView, HReq.value) # {}
                    THEN [R0 EXCEPT !.t = "rec", !.rec = IndexGet(HView, HReq.value)]
                    ELSE R("undefined"))]
    /\ UNCHANGED <<variant, engineVars, store, keyGen, connVars, hist>>

\* getItemsByRange, request.onsuccess:
\* request.result.filter((item) => item.id >= startId && item.id <= endId)
RangeFilterMutantExclusive(list, startId, endId) ==
    LET In(item) == item.id > startId /\ item.id < endId
    IN SelectSeq(list, In)
RangeFilter(list, startId, endId) ==
    LET In(item) == item.id >= startId /\ item.id <= endId
    IN SelectSeq(list, In)

GetItemsByRangeOnSuccess(c) ==
    /\ Ready(c, "getItemsByRange", "getAll")
    /\ txs' = Advance(HView, HKey)
    /\ calls' = [calls EXCEPT ![c] = Resolved(@,
                    [R0 EXCEPT !.t = "list",
                               !.list = RangeFilter(GetAll(HView), calls[c].arg.id, calls[c].arg.hi)])]
    /\ UNCHANGED <<variant, engineVars, store, keyGen, connVars, hist>>

\* getItemsByFilter, request.onsuccess: resolve(request.result.filter(filter))
FilterBy(list, filter) ==
    LET Accepts(item) == "name" \in DOMAIN item /\ item.name = filter
    IN SelectSeq(list, Accepts)

GetItemsByFilterOnSuccess(c) ==
    /\ Ready(c, "getItemsByFilter", "getAll")
    /\ txs' = Advance(HView, HKey)
    /\ calls' = [calls EXCEPT ![c] = Resolved(@,
                    [R0 EXCEPT !.t = "list", !.list = FilterBy(GetAll(HView), calls[c].arg.value)])]
    /\ UNCHANGED <<variant, engineVars, store, keyGen, connVars, hist>>

\* updateItem: const updatedData = { ...existing, ...updates, id }
UpdatedDataMutantPatchId(existing, updates, id) ==
    [f \in DOMAIN existing \cup DOMAIN updates \cup {"id"} |->
        IF f \in DOMAIN updates THEN updates[f] ELSE IF f = "id" THEN id ELSE existing[f]]
UpdatedData(existing, updates, id) ==
    [f \in DOMAIN existing \cup DOMAIN updates \cup {"id"} |->
        IF f = "id" THEN id ELSE IF f \in DOMAIN updates THEN updates[f] ELSE existing[f]]

\* updateItem: if (!existing) { reject(new Error("Item not found!")); return; }
\* ran: the queue once the get request has run
NotFoundMutantNoReturn(c, ran) ==
    /\ calls' = [calls EXCEPT ![c] = Rejected(@, "ItemNotFound")]
    /\ txs' = Append(ran, NewTx(c, "readwrite",
                 <<Req("put", 0, WithId(calls[c].arg.data, calls[c].arg.id), "")>>, FALSE))
NotFound(c, ran) ==
    /\ calls' = [calls EXCEPT ![c] = Rejected(@, "ItemNotFound")]
    /\ txs' = ran

\* updateItem after await this.getItem(id): reject(new Error("Item not found!"))
\* or this.setItem(updatedData), whose tx() throws on a closed connection
UpdateItemGetSuccess(c) ==
    /\ Ready(c, "updateItem", "get")
    /\ LET id == calls[c].arg.id
           ran == Advance(HView, HKey)
       IN IF ~Found(HView, id)
          THEN NotFound(c, ran)
          ELSE IF closed
          THEN /\ calls' = [calls EXCEPT ![c] = Rejected(@, "InvalidStateError")]
               /\ txs' = ran
          ELSE /\ calls' = [calls EXCEPT ![c].pc = "put"]
               /\ txs' = Append(ran, NewTx(c, "readwrite",
                            <<Req("put", 0, UpdatedData(Get(HView, id), calls[c].arg.data, id), "")>>,
                            FALSE))
    /\ UNCHANGED <<variant, engineVars, store, keyGen, connVars, hist>>

\* updateItem after await this.setItem(updatedData): resolve()
UpdateItemPutSuccess(c) ==
    /\ Ready(c, "updateItem", "put")
    /\ calls[c].pc = "put"
    /\ txs' = Advance(Put(HView, HKey, HReq.data), NextKey(HKey, HReq.data))
    /\ calls' = [calls EXCEPT ![c] = Resolved(@, R("void"))]
    /\ hist' = H0
    /\ UNCHANGED <<variant, engineVars, store, keyGen, connVars>>

\* a put or delete of a bulk transaction runs; the code sets no handler on it
BulkRequestSuccess ==
    /\ txs # <<>>
    /\ HeadTx.bulk
    /\ HeadTx.reqs # <<>>
    /\ IF HReq.type = "put"
       THEN txs' = Advance(Put(HView, HKey, HReq.data), NextKey(HKey, HReq.data))
       ELSE txs' = Advance(Delete(HView, HReq.id), HKey)
    /\ hist' = H0
    /\ UNCHANGED <<variant, engineVars, store, keyGen, connVars, calls>>

\* the head transaction has no request left: it commits
Commit(t) ==
    IF t.started /\ t.mode = "readwrite"
    THEN /\ store' = t.work
         /\ keyGen' = t.wkey
    ELSE UNCHANGED <<store, keyGen>>

Finished == txs # <<>> /\ HeadTx.reqs = <<>>

\* a transaction without an oncomplete handler completes
TxComplete ==
    /\ Finished
    /\ ~HeadTx.bulk
    /\ Commit(HeadTx)
    /\ txs' = Tail(txs)
    /\ UNCHANGED <<variant, engineVars, connVars, calls, hist>>

\* a transaction on which no handler was set completes
UnhandledTxComplete ==
    /\ Finished
    /\ HeadTx.bulk /\ HeadTx.owner = "none"
    /\ Commit(HeadTx)
    /\ txs' = Tail(txs)
    /\ UNCHANGED <<variant, engineVars, connVars, calls, hist>>

\* bulkInsert, tx.oncomplete: resolve()
BulkInsertOnComplete(c) ==
    /\ Finished
    /\ HeadTx.bulk /\ HeadTx.owner = c
    /\ Pending(c, "bulkInsert")
    /\ Commit(HeadTx)
    /\ txs' = Tail(txs)
    /\ calls' = [calls EXCEPT ![c] = Resolved(@, R("void"))]
    /\ UNCHANGED <<variant, engineVars, connVars, hist>>

\* bulkDelete, tx.oncomplete: resolve()
BulkDeleteOnComplete(c) ==
    /\ Finished
    /\ HeadTx.bulk /\ HeadTx.owner = c
    /\ Pending(c, "bulkDelete")
    /\ Commit(HeadTx)
    /\ txs' = Tail(txs)
    /\ calls' = [calls EXCEPT ![c] = Resolved(@, R("void"))]
    /\ UNCHANGED <<variant, engineVars, connVars, hist>>

(***************************************************************************)
(* Failure events of the engine.                                           *)
(***************************************************************************)
\* cached: init(), request.onerror: console.error(...), nothing else
InitError ==
    /\ variant = "cached" /\ request = "pending"
    /\ request' = "failed"
    /\ UNCHANGED <<variant, engineVars, store, keyGen, db, closed, handles, closeCalled, calls, txs, hist>>

\* percall: openDB(), request.onerror: reject(request.error); the operation's
\* await throws it on
OpenError(c) ==
    /\ variant = "percall"
    /\ calls[c].st = "pending" /\ calls[c].pc = "opening"
    /\ calls' = [calls EXCEPT ![c] = Rejected(@, "OpenError")]
    /\ UNCHANGED <<variant, engineVars, store, keyGen, connVars, txs, hist>>

\* a request of a single-request operation fails, request.onerror:
\* reject(request.error); the event is not cancelled, so the engine aborts the
\* transaction.  updateItem passes the rejection of its getItem or setItem on.
RequestError(c) ==
    /\ txs # <<>> /\ HeadTx.reqs # <<>> /\ ~HeadTx.bulk
    /\ HeadTx.owner = c /\ calls[c].st = "pending"
    /\ calls' = [calls EXCEPT ![c] = Rejected(@, "RequestError")]
    /\ txs' = Tail(txs)
    /\ UNCHANGED <<variant, engineVars, store, keyGen, connVars, hist>>

\* a put or delete of a bulk transaction fails; its error event bubbles to
\* tx.onerror: reject(tx.error), and tx.error is still null then: the engine
\* sets it when it aborts the transaction, after the event was dispatched
BulkRequestError(c) ==
    /\ txs # <<>> /\ HeadTx.reqs # <<>> /\ HeadTx.bulk
    /\ HeadTx.owner = c /\ calls[c].st = "pending"
    /\ calls' = [calls EXCEPT ![c] = Rejected(@, "null")]
    /\ txs' = Tail(txs)
    /\ UNCHANGED <<variant, engineVars, store, keyGen, connVars, hist>>

\* the commit of a read-write transaction fails (quota, I/O): the engine
\* aborts it and fires abort at the transaction; every request is done, so no
\* error event fires, and the code sets no onabort handler
CommitError ==
    /\ Finished
    /\ HeadTx.started /\ HeadTx.mode = "readwrite"
    /\ txs' = Tail(txs)
    /\ hist' = H0
    /\ UNCHANGED <<variant, engineVars, store, keyGen, connVars, calls>>

(***************************************************************************)
(* Inputs and the specification.                                           *)
(***************************************************************************)
RangeIds == 1..MaxId
IndexArgs == {IndexName, "age"}
Filters == Names
BulkRecords == {MkRec(0, "A"), MkRec(1, "A"), MkRec(1, "B"), MkRec(MaxId, "A")}
DisjointPatches == {[f \in {"name"} |-> "B"], [f \in {"age"} |-> 2]}
BulkItems == UNION {[1..n -> BulkRecords] : n \in 0..MaxBulk}
BulkItemsInvalid ==
    {items \in UNION {[1..n -> BulkRecords \cup {InvalidRec}] : n \in 1..MaxBulk} :
        \E i \in DOMAIN items : items[i] = InvalidRec}
BulkIds == UNION {[1..n -> Ids] : n \in 0..MaxBulk}

Next ==
    \/ InitUpgradeNeeded
    \/ InitSuccess
    \/ \E c \in Solo :
        \/ \E data \in Records : SetItem(c, data)
        \/ \E id \in Ids : GetItem(c, id)
        \/ GetAllItems(c)
        \/ \E id \in Ids : RemoveItem(c, id)
        \/ ClearStore(c)
        \/ \E id \in Ids : HasItem(c, id)
        \/ CountItems(c)
        \/ \E id \in Ids, updates \in Patches : UpdateItem(c, id, updates)
        \/ \E indexName \in IndexArgs, value \in Names : GetByIndex(c, indexName, value)
        \/ \E startId \in RangeIds, endId \in RangeIds : GetItemsByRange(c, startId, endId)
        \/ \E filter \in Filters : GetItemsByFilter(c, filter)
        \/ \E items \in BulkItems : BulkInsert(c, items)
        \/ \E ids \in BulkIds : BulkDelete(c, ids)
        \/ OpenUpgradeNeeded(c)
        \/ OpenSuccess(c)
        \/ SetItemOnSuccess(c)
        \/ GetItemOnSuccess(c)
        \/ GetAllItemsOnSuccess(c)
        \/ RemoveItemOnSuccess(c)
        \/ ClearOnSuccess(c)
        \/ HasItemOnSuccess(c)
        \/ CountOnSuccess(c)
        \/ GetByIndexOnSuccess(c)
        \/ GetItemsByRangeOnSuccess(c)
        \/ GetItemsByFilterOnSuccess(c)
        \/ UpdateItemGetSuccess(c)
        \/ UpdateItemPutSuccess(c)
        \/ BulkInsertOnComplete(c)
        \/ BulkDeleteOnComplete(c)
    \/ BulkRequestSuccess
    \/ TxComplete
    \/ HandleCollected

Spec == Init /\ [][Next]_vars

\* two callers, each awaiting its own calls only: setItem and updateItem
NextTwo ==
    \/ InitUpgradeNeeded
    \/ InitSuccess
    \/ \E c \in Callers :
        \/ \E data \in Records : SetItem(c, data)
        \/ \E id \in Ids, updates \in Patches : UpdateItem(c, id, updates)
        \/ OpenUpgradeNeeded(c)
        \/ OpenSuccess(c)
        \/ SetItemOnSuccess(c)
        \/ UpdateItemGetSuccess(c)
        \/ UpdateItemPutSuccess(c)
    \/ TxComplete
    \/ HandleCollected

SpecTwo == Init /\ [][NextTwo]_vars

\* the engine may fail: open requests, requests and commits
NextFault ==
    \/ Next
    \/ InitError
    \/ \E c \in Solo :
        \/ OpenError(c)
        \/ RequestError(c)
        \/ BulkRequestError(c)
    \/ CommitError

SpecFault == Init /\ [][NextFault]_vars

\* the same with bulkInsert lists that hold a record without a valid key
NextInvalid ==
    \/ NextFault
    \/ \E c \in Solo, items \in BulkItemsInvalid : BulkInsertThrows(c, items)
    \/ UnhandledTxComplete

SpecInvalid == Init /\ [][NextInvalid]_vars

\* every event of the engine that can fire does fire in the end: an open
\* request, a request and a transaction each come to an outcome
SpecFaultLive == SpecFault /\ WF_vars(NextFault)

\* two callers updating the record of id 1, each a field of its own
NextUpdates ==
    \/ InitUpgradeNeeded
    \/ InitSuccess
    \/ \E c \in Callers :
        \/ SetItem(c, MkRec(1, "A"))
        \/ \E updates \in DisjointPatches : UpdateItem(c, 1, updates)
        \/ OpenUpgradeNeeded(c)
        \/ OpenSuccess(c)
        \/ SetItemOnSuccess(c)
        \/ UpdateItemGetSuccess(c)
        \/ UpdateItemPutSuccess(c)
    \/ TxComplete
    \/ HandleCollected

SpecUpdates == Init /\ [][NextUpdates]_vars

\* the same with closeDB() among the calls
NextClose == Next \/ CloseDB
SpecClose == Init /\ [][NextClose]_vars


(***************************************************************************)
(* Properties.                                                             *)
(***************************************************************************)
\* what a step makes of the promise of caller c
Settles(c, op) == Pending(c, op) /\ calls'[c].st # "pending"
Resolves(c, op) == Pending(c, op) /\ calls'[c].st = "resolved"
Rejects(c, op) == Pending(c, op) /\ calls'[c].st = "rejected"

\* the store as the transaction whose request just ran sees it
WorkAfter == txs'[1].work

\* C1: a public operation is never issued against a null or unready handle:
\* no promise is rejected by the TypeError that reading this.db while it is
\* still undefined throws.
C1_NeverOnUnreadyHandle ==
    \A c \in Callers : ~(calls[c].st = "rejected" /\ calls[c].res.t = "TypeError")

\* C2: round trip.  setItem(r) with r.id resolves with r.id; and a getItem(id)
\* that resolves while the last resolved write is setItem(r) with r.id = id
\* resolves with a record equal to r.
C2_RoundTrip ==
    [][\A c \in Callers :
        /\ (Resolves(c, "setItem") /\ HasId(calls[c].arg.data))
              => (calls'[c].res.t = "key" /\ calls'[c].res.n = calls[c].arg.data.id)
        /\ (Resolves(c, "getItem") /\ hist.k = "set" /\ hist.rec.id = calls[c].arg.id)
              => (calls'[c].res.t = "rec" /\ calls'[c].res.rec = hist.rec)
      ]_vars

C2_Witness ==
    \E c \in Callers :
        /\ calls[c].op = "getItem" /\ calls[c].st = "resolved"
        /\ calls[c].res.t = "rec"
        /\ hist.k = "set" /\ hist.rec = calls[c].res.rec
        /\ "name" \in DOMAIN hist.rec


\* at most one record per id
Unique(S) == \A x \in S, y \in S : x.id = y.id => x = y

LiveStores == {store} \cup {txs[i].work : i \in {j \in DOMAIN txs : txs[j].started}}

\* C3: identity uniqueness.  The store never holds two records with one id,
\* neither committed nor inside a transaction; a setItem leaves the records
\* of every other id as they were; and a getAllItems that resolves while the
\* last resolved write is setItem(r) with an id lists each id once and has
\* exactly one entry with r.id, equal to r.
C3_IdentityUnique ==
    /\ [](\A S \in LiveStores : Unique(S))
    /\ [][\A c \in Callers :
            /\ Resolves(c, "setItem")
                  => {x \in WorkAfter : x.id # calls'[c].res.n}
                       = {x \in HView : x.id # calls'[c].res.n}
            /\ Resolves(c, "getAllItems")
                  => LET l == calls'[c].res.list
                     IN /\ \A i \in DOMAIN l, j \in DOMAIN l : l[i].id = l[j].id => i = j
                        /\ hist.k = "set"
                              => /\ \E i \in DOMAIN l : l[i] = hist.rec
                                 /\ \A i \in DOMAIN l : l[i].id = hist.rec.id => l[i] = hist.rec
         ]_vars

\* a second setItem for id 1 followed the first, and getAllItems listed its record
C3_Witness ==
    \E c \in Callers :
        /\ calls[c].op = "getAllItems" /\ calls[c].st = "resolved"
        /\ hist.k = "set" /\ hist.again /\ hist.rec = MkRec(1, "B")
        /\ calls[c].res.list = <<MkRec(1, "B")>>

StrictlyIncreasing(ids) == \A i \in DOMAIN ids, j \in DOMAIN ids : i < j => ids[i] < ids[j]

\* C4: autoincrement.  While only id-less setItem calls resolved since the
\* store was empty, the ids they resolved with are strictly increasing (so
\* pairwise distinct), and count() and the length of getAllItems() resolve
\* with their number.
C4_Autoincrement ==
    /\ [](hist.k = "autos" => StrictlyIncreasing(hist.ids))
    /\ [][\A c \in Callers :
            /\ (Resolves(c, "setItem") /\ ~HasId(calls[c].arg.data) /\ hist.k = "autos")
                  => /\ hist'.ids = Append(hist.ids, calls'[c].res.n)
                     /\ \A i \in DOMAIN hist.ids : hist.ids[i] < calls'[c].res.n
            /\ (Resolves(c, "count") /\ hist.k = "autos")
                  => calls'[c].res.n = Len(hist.ids)
            /\ (Resolves(c, "getAllItems") /\ hist.k = "autos")
                  => Len(calls'[c].res.list) = Len(hist.ids)
         ]_vars

C4_Witness ==
    \E c \in Callers :
        /\ calls[c].op = "count" /\ calls[c].st = "resolved"
        /\ hist.k = "autos" /\ Len(hist.ids) = 2
        /\ calls[c].res.n = 2

\* C5: delete.  A getItem(x) or hasItem(x) that resolves while the last
\* resolved write is removeItem(x) resolves with undefined, with false; and a
\* removeItem whose request was placed resolves, also when no record has the
\* id, removing that id's record and nothing else.
C5_Delete ==
    [][\A c \in Callers :
        /\ (Resolves(c, "getItem") /\ hist.k = "removed" /\ hist.id = calls[c].arg.id)
              => calls'[c].res.t = "undefined"
        /\ (Resolves(c, "hasItem") /\ hist.k = "removed" /\ hist.id = calls[c].arg.id)
              => (calls'[c].res.t = "bool" /\ calls'[c].res.b = FALSE)
        /\ (Settles(c, "removeItem") /\ calls[c].pc = "request")
              => /\ calls'[c].st = "resolved"
                 /\ WorkAfter = {x \in HView : x.id # calls[c].arg.id}
      ]_vars

\* removeItem resolved on a store with one record of another id, which stays
C5_Witness ==
    \E c \in Callers :
        /\ calls[c].op = "removeItem" /\ calls[c].st = "resolved"
        /\ hist.k = "removed" /\ hist.id = 1
        /\ txs # <<>> /\ txs[1].started
        /\ store = {MkRec(2, "A")} /\ txs[1].work = store


\* C6: clear totality.  A getAllItems or count that resolves while the last
\* resolved write is clear() resolves with the empty list, with 0, whatever
\* the store held before; the object store stays declared, and a setItem
\* whose request was placed resolves.
C6_ClearTotality ==
    [][/\ \A c \in Callers :
            /\ (Resolves(c, "clear"))
                  => (WorkAfter = {} /\ hist' = Autos(<<>>))
            /\ (Resolves(c, "getAllItems") /\ hist = Autos(<<>>))
                  => calls'[c].res.list = <<>>
            /\ (Resolves(c, "count") /\ hist = Autos(<<>>))
                  => calls'[c].res.n = 0
            /\ (Settles(c, "setItem") /\ calls[c].pc = "request")
                  => calls'[c].st = "resolved"
       /\ StoreName \in objectStoreNames => StoreName \in objectStoreNames'
      ]_vars

\* records were committed (the key generator moved), clear() resolved last,
\* and getAllItems resolved with the empty list
C6_Witness ==
    \E c \in Callers :
        /\ calls[c].op = "getAllItems" /\ calls[c].st = "resolved"
        /\ calls[c].res.list = <<>>
        /\ hist = Autos(<<>>)
        /\ keyGen > 1

\* the claim's merge: the fields of patch over those of e, and id on top
Merged(e, patch, id) ==
    [f \in DOMAIN e \cup DOMAIN patch \cup {"id"} |->
        CASE f = "id" -> id
          [] f # "id" /\ f \in DOMAIN patch -> patch[f]
          [] OTHER -> e[f]]

\* C7: partial update merge.  When updateItem(id, patch) resolves and e is the
\* record its put found at id, the store then holds Merged(e, patch, id) at id
\* and every other record as before.
C7_PartialUpdateMerge ==
    [][\A c \in Callers :
        Resolves(c, "updateItem")
           => LET id == calls[c].arg.id
              IN /\ Found(HView, id)
                 /\ WorkAfter = {x \in HView : x.id # id}
                                  \cup {Merged(Get(HView, id), calls[c].arg.data, id)}
      ]_vars

\* an updateItem resolved that changed the name of record 1 and kept record 2
C7_Witness ==
    \E c \in Callers :
        /\ calls[c].op = "updateItem" /\ calls[c].st = "resolved"
        /\ txs # <<>> /\ txs[1].started
        /\ store = {MkRec(1, "A"), MkRec(2, "A")}
        /\ txs[1].work = {MkRec(1, "B"), MkRec(2, "A")}

\* C8: updateItem on an id without a record rejects with "Item not found!",
\* places no put and changes nothing; getItem on an id without a record and
\* getByIndex (on a declared index) on a value without a record resolve with
\* undefined.
C8_NotFound ==
    [][\A c \in Callers :
        /\ (Ready(c, "updateItem", "get") /\ ~Found(HView, calls[c].arg.id)
              /\ calls'[c] # calls[c])
              => /\ calls'[c].st = "rejected" /\ calls'[c].res.t = "ItemNotFound"
                 /\ Len(txs') = Len(txs)
                 /\ WorkAfter = HView
                 /\ store' = store
        /\ (Rejects(c, "updateItem") /\ calls'[c].res.t = "ItemNotFound")
              => ~Found(HView, calls[c].arg.id)
        /\ (Ready(c, "getItem", "get") /\ ~Found(HView, calls[c].arg.id)
              /\ calls'[c] # calls[c])
              => (calls'[c].st = "resolved" /\ calls'[c].res.t = "undefined")
        /\ (Ready(c, "getByIndex", "indexGet")
              /\ ~(\E x \in HView : "name" \in DOMAIN x /\ x.name = calls[c].arg.value)
              /\ calls'[c] # calls[c])
              => (calls'[c].st = "resolved" /\ calls'[c].res.t = "undefined")
      ]_vars

\* updateItem was rejected with "Item not found!" on a store holding another record
C8_Witness ==
    \E c \in Callers :
        /\ calls[c].op = "updateItem" /\ calls[c].st = "rejected"
        /\ calls[c].res.t = "ItemNotFound"
        /\ store = {MkRec(2, "A")}
        /\ txs # <<>> /\ txs[1].started /\ txs[1].work = store


\* C9: range inclusivity.  getItemsByRange(startId, endId) resolves with
\* exactly the records whose id is in startId..endId, each once, in ascending
\* id order; with nothing when startId > endId.
C9_RangeInclusive ==
    [][\A c \in Callers :
        Resolves(c, "getItemsByRange")
           => LET l == calls'[c].res.list
                  lo == calls[c].arg.id
                  hi == calls[c].arg.hi
              IN /\ {l[i] : i \in DOMAIN l} = {x \in HView : lo <= x.id /\ x.id <= hi}
                 /\ \A i \in DOMAIN l, j \in DOMAIN l : i < j => l[i].id < l[j].id
                 /\ lo > hi => l = <<>>
      ]_vars

\* a range resolved with the upper one of two records
C9_Witness ==
    \E c \in Callers :
        /\ calls[c].op = "getItemsByRange" /\ calls[c].st = "resolved"
        /\ store = {MkRec(1, "A"), MkRec(2, "B")}
        /\ txs # <<>> /\ txs[1].started /\ txs[1].work = store
        /\ calls[c].res.list = <<MkRec(2, "B")>>

\* the last record of items that carries id
LastWithId(items, id) ==
    items[CHOOSE i \in DOMAIN items :
            /\ HasId(items[i]) /\ items[i].id = id
            /\ \A j \in DOMAIN items : (HasId(items[j]) /\ items[j].id = id) => j <= i]

\* C10 as claimed: once bulkInsert(records) resolved, every record of the
\* input that carries an id is in the store.
C10_EveryInputRecordStored ==
    [][\A c \in Callers :
        Resolves(c, "bulkInsert")
           => \A i \in DOMAIN calls[c].arg.items :
                 HasId(calls[c].arg.items[i]) => calls[c].arg.items[i] \in store'
      ]_vars

\* C10, amended: once bulkInsert(records) resolved, every id carried by an
\* input record holds the last input record with that id; and while the call
\* is pending and its transaction runs the committed store does not change:
\* no part of the input is visible before the whole of it.
C10_BulkAtomicVisibility ==
    [][\A c \in Callers :
        /\ Resolves(c, "bulkInsert")
              => LET items == calls[c].arg.items
                     ids == {items[i].id : i \in {j \in DOMAIN items : HasId(items[j])}}
                 IN \A id \in ids : LastWithId(items, id) \in store'
        /\ (Pending(c, "bulkInsert") /\ calls'[c].st = "pending"
              /\ txs # <<>> /\ HeadTx.bulk /\ HeadTx.owner = c)
              => store' = store
      ]_vars

\* bulkInsert of two records with different ids resolved: both are committed
C10_Witness ==
    \E c \in Callers :
        /\ calls[c].op = "bulkInsert" /\ calls[c].st = "resolved"
        /\ store = {MkRec(1, "B"), MkRec(2, "A")}
        /\ txs = <<>>
        /\ hist = H0

\* C15: hasItem(id) resolves true exactly when getItem(id), run against the
\* same state of the store, resolves with a record: each of the two resolves
\* with what the other's handler would make of the store it sees.
C15_HasItemIffGetItem ==
    [][\A c \in Callers :
        /\ Resolves(c, "hasItem")
              => /\ calls'[c].res.t = "bool"
                 /\ calls'[c].res.b = (RecOrUndefined(HView, calls[c].arg.id).t = "rec")
        /\ Resolves(c, "getItem")
              => (calls'[c].res.t = "rec") = HasItemResult(HView, calls[c].arg.id).b
      ]_vars

\* hasItem resolved true on a store whose only record has id 2
C15_Witness ==
    \E c \in Callers :
        /\ calls[c].op = "hasItem" /\ calls[c].st = "resolved"
        /\ calls[c].res.b = TRUE
        /\ txs # <<>> /\ txs[1].started /\ txs[1].work = {MkRec(2, "A")}

OpenStep == handles' > handles \/ dbVersion' # dbVersion

\* C19: the schema upgrade runs at most once: only while the database is
\* below the version, which it then reaches and keeps; it creates the
\* collection, which was missing; at the version the schema never changes; and
\* no open, with or without upgrade, changes the records or the key generator.
C19_UpgradeOnce ==
    [][/\ dbVersion' # dbVersion
            => /\ dbVersion < Version /\ dbVersion' = Version
               /\ StoreName \notin objectStoreNames
               /\ objectStoreNames' = objectStoreNames \cup {StoreName}
       /\ dbVersion = Version
            => (dbVersion' = Version /\ objectStoreNames' = objectStoreNames)
       /\ OpenStep => (store' = store /\ keyGen' = keyGen)
      ]_vars

\* percall, on a database this program created: a record is committed and a
\* later operation's open has succeeded, its transaction not yet started
C19_Witness ==
    \E c \in Callers :
        /\ variant = "percall" /\ indexNames = {} /\ dbVersion = Version
        /\ store = {MkRec(1, "A")}
        /\ calls[c].st = "pending" /\ calls[c].pc = "request"
        /\ Len(txs) = 1 /\ ~txs[1].started
        /\ handles = 2

\* a request of a transaction of caller d runs in this step
RunsRequestOf(d) ==
    /\ txs # <<>> /\ HeadTx.owner = d /\ HeadTx.reqs # <<>>
    /\ txs' # <<>> /\ txs'[1].started /\ txs'[1].reqs = Tail(HeadTx.reqs)

\* C17: an operation executes inside one transaction: between its first and
\* its last primitive call (for updateItem: after its get has run and before
\* its put has) no request of another operation's transaction runs.
C17_OneTransactionPerOperation ==
    [][\A c \in Callers :
        (Pending(c, "updateItem") /\ calls[c].pc = "put")
           => \A d \in Callers \ {c} : ~RunsRequestOf(d)
      ]_vars

BulkOps == {"bulkInsert", "bulkDelete"}

\* C11: the promise of bulkInsert and bulkDelete settles with the one
\* transaction that holds all their requests: when that transaction ends, by
\* completing or by aborting for any reason, the promise is resolved (only if
\* it completed) or rejected (if it aborted), never left pending.
C11_BulkSettlesWithItsTransaction ==
    [][\A c \in Callers :
        (calls[c].st = "pending" /\ calls[c].op \in BulkOps
           /\ txs # <<>> /\ HeadTx.bulk /\ HeadTx.owner = c /\ txs' = Tail(txs))
           => /\ calls'[c].st # "pending"
              /\ calls'[c].st = "resolved" => (HeadTx.reqs = <<>> /\ store' = HView)
      ]_vars

\* C12: the promise a public call returned settles in the end.
C12_EverySettles ==
    \A c \in Callers : [](calls[c].st = "pending" => <>(calls[c].st # "pending"))

\* C13: a failed open is surfaced to the caller: once the open request of the
\* instance has failed, an operation that is rejected is rejected with the
\* error of that open request.
C13_OpenErrorReachesCaller ==
    [][\A c \in Callers :
        (request = "failed" /\ calls'[c] # calls[c] /\ calls'[c].st = "rejected")
           => calls'[c].res.t = "OpenError"
      ]_vars

ReadOps == {"getItem", "getAllItems", "hasItem", "count", "getByIndex",
            "getItemsByFilter", "getItemsByRange"}
WriteOps == {"setItem", "removeItem", "clear", "updateItem", "bulkInsert", "bulkDelete"}

\* C18: read operations open read-only transactions only, and a read-write
\* transaction is opened only by a write operation; a read operation that
\* settles, resolved or rejected, leaves the records and the key generator as
\* they were, committed and as its transaction sees them; and a read-only
\* transaction that ends leaves them as they were.
C18_ReadsAreReadOnly ==
    [][/\ Len(txs') = Len(txs) + 1
            => LET t == txs'[Len(txs')]
               IN /\ t.mode \in {"readonly", "readwrite"}
                  /\ calls'[t.owner].op \in ReadOps \cup WriteOps
                  /\ calls'[t.owner].op \in ReadOps => t.mode = "readonly"
                  /\ t.mode = "readwrite" => calls'[t.owner].op \in WriteOps
       /\ \A c \in Callers :
            (calls[c].st = "pending" /\ calls[c].op \in ReadOps /\ calls'[c].st # "pending")
               => /\ store' = store /\ keyGen' = keyGen
                  /\ Len(txs') = Len(txs) /\ txs # <<>>
                        => (txs'[1].work = HView /\ txs'[1].wkey = HKey)
       /\ (txs # <<>> /\ HeadTx.mode = "readonly" /\ txs' = Tail(txs))
            => (store' = store /\ keyGen' = keyGen)
      ]_vars

\* a read was rejected by a failing request while a record was committed
C18_Witness ==
    \E c \in Callers :
        /\ calls[c].op = "getAllItems" /\ calls[c].st = "rejected"
        /\ calls[c].res.t = "RequestError"
        /\ store = {MkRec(1, "A")} /\ keyGen = 2

\* caller c issues a public call in this step
Issues(c) == calls[c].st # "pending" /\ calls'[c] # calls[c]

\* C14: close is terminal: a public operation issued after closeDB() was
\* called is rejected at once, starts no transaction, opens no connection and
\* leaves the records unchanged.
C14_CloseIsTerminal ==
    [][\A c \in Callers :
        (closeCalled /\ Issues(c))
           => /\ calls'[c].st = "rejected"
              /\ txs' = txs
              /\ handles' = handles
              /\ store' = store
      ]_vars

\* C20: at most one connection to the database is open at any time.
C20_AtMostOneHandle == handles <= 1

\* C21: a bulk call whose promise is rejected applies none of its writes: the
\* records change through a bulk transaction only in the step in which that
\* transaction completes and resolves the promise of its call.
C21_RejectedBulkAppliesNothing ==
    [][(txs # <<>> /\ HeadTx.bulk /\ store' # store)
          => \E c \in Callers :
                /\ HeadTx.owner = c
                /\ calls[c].st = "pending" /\ calls[c].op \in BulkOps
                /\ calls'[c].st = "resolved"
      ]_vars

\* C22: updateItem loses no update: when updateItem(id, patch) resolves while
\* the other caller's call is an updateItem too, each field of the record that
\* patch does not name is as the put found it, so what the other updateItem
\* wrote to its own field is still there.
C22_NoLostUpdate ==
    [][\A c \in Callers :
        (Resolves(c, "updateItem")
           /\ \E d \in Callers \ {c} : calls[d].op = "updateItem" /\ calls[d].st = "resolved")
           => LET id == calls[c].arg.id
                  patch == calls[c].arg.data
                  before == Get(HView, id)
                  after == Get(WorkAfter, id)
              IN \A f \in DOMAIN before \ (DOMAIN patch \cup {"id"}) :
                    f \in DOMAIN after /\ after[f] = before[f]
      ]_vars

\* C23: a write is committed when its promise resolves: the transaction of a
\* setItem, removeItem, clear or updateItem put whose request has succeeded
\* (which resolved the promise) ends only by committing what it wrote.
C23_ResolvedWriteIsCommitted ==
    [][(/\ txs # <<>> /\ ~HeadTx.bulk /\ HeadTx.mode = "readwrite"
        /\ HeadTx.started /\ HeadTx.reqs = <<>>
        /\ txs' = Tail(txs))
          => (store' = HeadTx.work /\ keyGen' = HeadTx.wkey)
      ]_vars

\* C24: closeDB() is effective whenever it is called: once it was called, the
\* instance holds no open connection.
C24_NoHandleAfterClose == closeCalled => handles = 0

====
